---- MODULE Spec2Model ----
(***************************************************************************)
(* Model of the Fakturoid invoice REST API (src/app): the OAuth token      *)
(* cache of FakturoidService, the template store of AppConfig and the HTTP *)
(* handlers of main.py.                                                    *)
(*                                                                         *)
(* The handlers are `async def` functions that call the blocking requests  *)
(* library, so one process serves one inbound request at a time: Spec has  *)
(* a single handler, whose token calls run as caller 1.  SpecConc drops    *)
(* the handler and lets two callers run _get_access_token statement by     *)
(* statement, as when the service object is shared between threads.        *)
(* SpecDate applies get_last_day_of_previous_month to every call date.     *)
(***************************************************************************)
EXTENDS Integers, Sequences, FiniteSets, TLC

VARIABLES
    now,               \* datetime.now(), in seconds since the service was built
    access_token,      \* FakturoidService._access_token
    token_expires_at,  \* FakturoidService._token_expires_at
    call,              \* per caller: the activation record of _get_access_token
    templates,         \* AppConfig._templates (the set of loaded template names)
    pc,                \* position of the handler serving the current request
    req,               \* the inbound request being served
    status,            \* HTTP status of the response (0 while being served)
    body,              \* what the response body carries
    remote,            \* outbound HTTP calls issued so far, in order
    generator_lines,   \* create_invoice: local generator_lines
    invoice_lines,     \* create_invoice: local invoice_lines
    payload,           \* FakturoidService.create_invoice: the JSON sent
    today,             \* calendar date of datetime.now()
    issue_date,        \* result of get_last_day_of_previous_month()
    env,               \* the environment variables AppConfig._load_env reads
    service            \* TRUE once FAKTUROID_SERVICE holds a FakturoidService

vars == <<now, access_token, token_expires_at, call, templates, pc, req, status,
          body, remote, generator_lines, invoice_lines, payload, today, issue_date,
          env, service>>

tokenVars == <<access_token, token_expires_at>>
handlerVars == <<pc, req, status, body, generator_lines, invoice_lines, payload,
                 issue_date>>

-----------------------------------------------------------------------------
(* Values *)

NONE == "None"          \* Python None where a string is expected
NoTime == -1            \* Python None where a datetime is expected
ABSENT == -1            \* a key missing from a JSON object

TOKEN_EXPIRY_BUFFER == 300
DEFAULT_EXPIRES_IN == 7200

\* Bounds of the model
MaxTicks == 2           \* the clock stops after this many steps
TickSeconds == 3300     \* time passes in steps of this many seconds
ShortExpiresIn == 3600  \* an explicit expires_in of an OAuth response

Callers == {1, 2}
Handler == 1            \* the caller that is the event loop's handler

\* Responses of the OAuth token endpoint.
OAuthResponses ==
    { [status |-> 200, access_token |-> "tokA", expires_in |-> ABSENT],
      [status |-> 200, access_token |-> "tokB", expires_in |-> ShortExpiresIn],
      [status |-> 401, access_token |-> NONE, expires_in |-> ABSENT] }

NoResponse == [status |-> 0, access_token |-> NONE, expires_in |-> ABSENT]

NoCall == [pc |-> "none", hit |-> FALSE, entry_token |-> NONE,
           entry_expires |-> NoTime, entry_now |-> 0, oauth |-> 0,
           resp |-> NoResponse, wrote_expires |-> NoTime, ret |-> NONE]

-----------------------------------------------------------------------------
(* FakturoidService._get_access_token, statement by statement *)

\* Python truthiness of the two cache fields (fakturoid_service.py:50).
Cached(token, expires) == token # NONE /\ token # "" /\ expires # NoTime

\* Faulty variant: the buffer is applied on both sides of the comparison.
TokenFreshDoubleBuffer(token, expires, t) ==
    Cached(token, expires) /\ t + TOKEN_EXPIRY_BUFFER < expires - TOKEN_EXPIRY_BUFFER

\* Faulty variant: the boundary instant still counts as fresh.
TokenFreshInclusive(token, expires, t) ==
    Cached(token, expires) /\ t <= expires - TOKEN_EXPIRY_BUFFER

\* The cache test of lines 50-51.
TokenFresh(token, expires, t) ==
    Cached(token, expires) /\ t < expires - TOKEN_EXPIRY_BUFFER

\* Faulty variant: a missing expires_in counts as one hour.
ExpiresInHour(resp) ==
    IF resp.expires_in = ABSENT THEN 3600 ELSE resp.expires_in

\* data.get("expires_in", 7200)
ExpiresIn(resp) ==
    IF resp.expires_in = ABSENT THEN DEFAULT_EXPIRES_IN ELSE resp.expires_in

\* Lines 50-52: return the cached token, or go on to the OAuth request.
TokenCheck(t) ==
    /\ call[t].pc = "check"
    /\ LET hit == TokenFresh(access_token, token_expires_at, now)
           c == [call[t] EXCEPT !.hit = hit,
                                !.entry_token = access_token,
                                !.entry_expires = token_expires_at,
                                !.entry_now = now]
       IN call' = [call EXCEPT ![t] =
                     IF hit THEN [c EXCEPT !.pc = "returned", !.ret = access_token]
                            ELSE [c EXCEPT !.pc = "oauth"]]
    /\ UNCHANGED <<now, tokenVars, templates, handlerVars, remote, today, env, service>>

\* Faulty variant: the status of the OAuth response is not looked at.
OAuthOutcomeUnchecked(r) == "store_token"

\* Faulty variant: on a refused request the call falls back to the cached token.
OAuthOutcomeFallsBack(r) == IF r.status # 200 THEN "return" ELSE "store_token"

\* Lines 68-70: a status other than 200 raises.
oauth_outcome(r) == IF r.status # 200 THEN "failed" ELSE "store_token"

\* Lines 56-70: one POST to /oauth/token.
OAuthRequest(t) ==
    /\ call[t].pc = "oauth"
    /\ \E r \in OAuthResponses :
         /\ remote' = Append(remote, [op |-> "oauth", status |-> r.status])
         /\ call' = [call EXCEPT ![t].oauth = @ + 1,
                                 ![t].resp = r,
                                 ![t].pc = oauth_outcome(r)]
    /\ UNCHANGED <<now, tokenVars, templates, handlerVars, today, env, service>>

\* Lines 72-73: self._access_token = data["access_token"]
StoreToken(t) ==
    /\ call[t].pc = "store_token"
    /\ access_token' = call[t].resp.access_token
    /\ call' = [call EXCEPT ![t].pc = "store_expiry"]
    /\ UNCHANGED <<now, token_expires_at, templates, handlerVars, remote, today, env, service>>

\* Lines 74-75: self._token_expires_at = datetime.now() + timedelta(expires_in)
StoreExpiry(t) ==
    /\ call[t].pc = "store_expiry"
    /\ token_expires_at' = now + ExpiresIn(call[t].resp)
    /\ call' = [call EXCEPT ![t].pc = "return",
                            ![t].wrote_expires = now + ExpiresIn(call[t].resp)]
    /\ UNCHANGED <<now, access_token, templates, handlerVars, remote, today, env, service>>

\* Line 78: return self._access_token
TokenReturn(t) ==
    /\ call[t].pc = "return"
    /\ call' = [call EXCEPT ![t].pc = "returned", ![t].ret = access_token]
    /\ UNCHANGED <<now, tokenVars, templates, handlerVars, remote, today, env, service>>

\* A caller outside any handler enters _get_access_token (SpecConc only).
Enter(t) ==
    /\ call[t].pc = "none"
    /\ call' = [call EXCEPT ![t] = [NoCall EXCEPT !.pc = "check"]]
    /\ UNCHANGED <<now, tokenVars, templates, handlerVars, remote, today, env, service>>

\* Time passes.
Tick ==
    /\ now + TickSeconds <= MaxTicks * TickSeconds
    /\ now' = now + TickSeconds
    /\ UNCHANGED <<tokenVars, call, templates, handlerVars, remote, today, env, service>>

-----------------------------------------------------------------------------
(* get_last_day_of_previous_month, with the date arithmetic of datetime *)

Date(y, m, d) == [year |-> y, month |-> m, day |-> d]

\* datetime._is_leap
is_leap(y) == y % 4 = 0 /\ (y % 100 # 0 \/ y % 400 = 0)

\* datetime._DAYS_IN_MONTH, index 1..12
DAYS_IN_MONTH == <<31, 28, 31, 30, 31, 30, 31, 31, 30, 31, 30, 31>>

\* datetime._DAYS_BEFORE_MONTH, index 1..12
DAYS_BEFORE_MONTH == <<0, 31, 59, 90, 120, 151, 181, 212, 243, 273, 304, 334>>

days_in_month(y, m) == IF m = 2 /\ is_leap(y) THEN 29 ELSE DAYS_IN_MONTH[m]

days_before_year(y) ==
    LET p == y - 1 IN p * 365 + (p \div 4) - (p \div 100) + (p \div 400)

days_before_month(y, m) ==
    DAYS_BEFORE_MONTH[m] + (IF m > 2 /\ is_leap(y) THEN 1 ELSE 0)

\* date.toordinal()
ymd2ord(dt) ==
    days_before_year(dt.year) + days_before_month(dt.year, dt.month) + dt.day

\* date.fromordinal(): the 400/100/4/1-year cycle decomposition of datetime._ord2ymd
ord2ymd(ordinal) ==
    LET n0 == ordinal - 1
        n400 == n0 \div 146097
        r400 == n0 % 146097
        n100 == r400 \div 36524
        r100 == r400 % 36524
        n4 == r100 \div 1461
        r4 == r100 % 1461
        n1 == r4 \div 365
        n == r4 % 365
        year == n400 * 400 + 1 + n100 * 100 + n4 * 4 + n1
        leapyear == n1 = 3 /\ (n4 # 24 \/ n100 = 3)
        month0 == (n + 50) \div 32
        preceding0 == DAYS_BEFORE_MONTH[month0]
                        + (IF month0 > 2 /\ leapyear THEN 1 ELSE 0)
        month == IF preceding0 > n THEN month0 - 1 ELSE month0
        preceding == IF preceding0 > n
                     THEN preceding0 - (DAYS_IN_MONTH[month]
                            + (IF month = 2 /\ leapyear THEN 1 ELSE 0))
                     ELSE preceding0
    IN IF n1 = 4 \/ n100 = 4
       THEN Date(year - 1, 12, 31)
       ELSE Date(year, month, n - preceding + 1)

Digit(k) == CASE k = 0 -> "0" [] k = 1 -> "1" [] k = 2 -> "2" [] k = 3 -> "3"
              [] k = 4 -> "4" [] k = 5 -> "5" [] k = 6 -> "6" [] k = 7 -> "7"
              [] k = 8 -> "8" [] k = 9 -> "9"

\* strftime("%Y-%m-%d") for a four-digit year
strftime(dt) ==
    Digit(dt.year \div 1000) \o Digit((dt.year \div 100) % 10)
      \o Digit((dt.year \div 10) % 10) \o Digit(dt.year % 10) \o "-"
      \o Digit(dt.month \div 10) \o Digit(dt.month % 10) \o "-"
      \o Digit(dt.day \div 10) \o Digit(dt.day % 10)

\* Faulty variant: steps back a fixed 30 days from the call date.
ThirtyDaysBack(dt) == strftime(ord2ymd(ymd2ord(dt) - 30))

\* fakturoid_service.py:203-207
get_last_day_of_previous_month(dt) ==
    LET first_of_current == [dt EXCEPT !.day = 1]
        last_of_previous == ord2ymd(ymd2ord(first_of_current) - 1)
    IN strftime(last_of_previous)

\* Bounds of the call dates
MinYear == 1999
MaxYear == 2101

CallDates ==
    { Date(y, m, d) : y \in MinYear..MaxYear, m \in 1..12, d \in 1..31 }
      \ { dt \in { Date(y, m, d) : y \in MinYear..MaxYear, m \in 1..12, d \in 29..31 } :
            dt.day > days_in_month(dt.year, dt.month) }

\* The dates on which the service of Spec runs.
ServiceDates == { Date(2025, 1, 1) }

-----------------------------------------------------------------------------
(* AppConfig: the template store *)

TemplateNames == {"acme", "beta"}

\* What _load_templates can find on disk when it runs: names are the entries
\* of the file, stored are those the loop of lines 87-88 assigns before it ends
\* (all of them, or those ahead of an entry TemplateConfig rejects).
TemplateFiles ==
    { [kind |-> "missing", names |-> {}, stored |-> {}],
      [kind |-> "invalid", names |-> {}, stored |-> {}],
      [kind |-> "bad_entry", names |-> TemplateNames, stored |-> {"acme"}],
      [kind |-> "ok", names |-> {"acme"}, stored |-> {"acme"}],
      [kind |-> "ok", names |-> TemplateNames, stored |-> TemplateNames] }

NoFile == [kind |-> "missing", names |-> {}, stored |-> {}]

\* config.py:70-100: adds the file's templates to the store; a missing or
\* unparsable file is logged and leaves the store as it is, and an exception in
\* the loop is logged and keeps what was assigned before it.
load_templates(store, file) ==
    IF file.kind \in {"ok", "bad_entry"} THEN store \cup file.stored ELSE store

\* Faulty variant: the store is not cleared before loading.
ReloadWithoutClear(store, file) == load_templates(store, file)

\* config.py:110-113
reload_templates_store(store, file) == load_templates({}, file)

\* config.py:102-104: None for an unknown name
get_template(name) == IF name \in templates THEN name ELSE NONE

-----------------------------------------------------------------------------
(* Inbound requests *)

API_USERNAME == "admin"
API_PASSWORD == "s3cret"

Usernames == {API_USERNAME, "mallory"}
Passwords == {API_PASSWORD, "guess"}

\* The Authorization header of a request; HTTPBasic answers 401 when it is missing.
NoCredentials == [present |-> FALSE, username |-> NONE, password |-> NONE]
Credentials ==
    { [present |-> TRUE, username |-> u, password |-> p] :
        u \in Usernames, p \in Passwords } \cup {NoCredentials}

\* secrets.compare_digest on the encoded strings
compare_digest(a, b) == a = b

\* Faulty variant: only the username is compared.
VerifyUsernameOnly(credentials) ==
    credentials.present /\ compare_digest(credentials.username, API_USERNAME)

\* main.py:43-64: TRUE when the dependency lets the request through.
verify_credentials(credentials) ==
    /\ credentials.present
    /\ compare_digest(credentials.username, API_USERNAME)
    /\ compare_digest(credentials.password, API_PASSWORD)

\* Bounds of the request and generator data
MaxRequestLines == 2
MaxGeneratorLines == 2

\* The (name, quantity) pairs a request body can carry.
RequestLineSet ==
    { [name |-> "A", quantity |-> 3], [name |-> "B", quantity |-> 5],
      [name |-> "X", quantity |-> 3] }

Distinct(s) == \A i, j \in 1..Len(s) : i # j => s[i].name # s[j].name

SeqsUpTo(S, n) == UNION { [1..k -> S] : k \in 0..n }

\* InvoiceRequest.lines: a dict, so the names are distinct; kept in insertion order.
RequestLines == { s \in SeqsUpTo(RequestLineSet, MaxRequestLines) : Distinct(s) }

JsonNumber(v) == [json |-> "number", value |-> v]
JsonString(v) == [json |-> "string", value |-> v]

\* The lines a generator of the remote service can have.
GeneratorLineSet ==
    { [name |-> "A", unit_name |-> "h", unit_price |-> JsonNumber(10), vat_rate |-> 21],
      [name |-> "A", unit_name |-> "ks", unit_price |-> JsonString(25), vat_rate |-> 0],
      [name |-> "B", unit_name |-> "h", unit_price |-> JsonString(20), vat_rate |-> 21] }

\* Responses of the generator endpoint.
GeneratorResponses ==
    { [status |-> 200, lines |-> s] : s \in SeqsUpTo(GeneratorLineSet, MaxGeneratorLines) }
      \cup { [status |-> 404, lines |-> <<>>] }

InvoiceStatuses == {200, 201, 422}
PdfStatuses == {200, 404}

Endpoints == {"docs", "health", "list_templates", "template_details",
              "create_invoice", "download_pdf", "reload_templates"}

Request(e, c, tn, ln, f) ==
    [endpoint |-> e, credentials |-> c, template_name |-> tn, lines |-> ln,
     templates_file |-> f]

NoRequest == Request(NONE, NoCredentials, NONE, <<>>, NoFile)

Body(k, names, count) == [kind |-> k, names |-> names, count |-> count]
NoBody == Body("none", {}, ABSENT)

NoPayload == [sent |-> FALSE, template |-> NONE, issued_on |-> NONE, lines |-> <<>>]

-----------------------------------------------------------------------------
(* FakturoidService.build_invoice_lines *)

\* float() of a JSON number or of a numeric JSON string
python_float(x) == x.value

\* Line 183: {line["name"]: line for line in generator_lines}; a later line
\* replaces an earlier one of the same name.
template_lookup(lines) ==
    [ n \in { lines[i].name : i \in 1..Len(lines) } |->
        lines[CHOOSE i \in 1..Len(lines) :
                /\ lines[i].name = n
                /\ \A j \in 1..Len(lines) : j > i => lines[j].name # n] ]

\* Faulty variant: the price is taken from the request's quantity.
InvoiceLinePriceFromRequest(q, template_line) ==
    [name |-> q.name, quantity |-> q.quantity,
     unit_name |-> template_line.unit_name,
     unit_price |-> q.quantity,
     vat_rate |-> template_line.vat_rate]

\* Lines 192-198
InvoiceLine(q, template_line) ==
    [name |-> q.name, quantity |-> q.quantity,
     unit_name |-> template_line.unit_name,
     unit_price |-> python_float(template_line.unit_price),
     vat_rate |-> template_line.vat_rate]

RECURSIVE build_loop(_, _, _, _)
\* Lines 186-200: the loop, from the i-th requested line on.
build_loop(lookup, quantities, i, acc) ==
    IF i > Len(quantities)
    THEN [ok |-> TRUE, lines |-> acc, available |-> DOMAIN lookup]
    ELSE IF quantities[i].name \notin DOMAIN lookup
         THEN [ok |-> FALSE, lines |-> <<>>, available |-> DOMAIN lookup]
         ELSE build_loop(lookup, quantities, i + 1,
                         Append(acc, InvoiceLine(quantities[i], lookup[quantities[i].name])))

\* Faulty variant: unknown names are skipped instead of raising.
BuildSkippingUnknown(lines, quantities) ==
    LET lookup == template_lookup(lines)
        known == SelectSeq(quantities, LAMBDA q : q.name \in DOMAIN lookup)
    IN build_loop(lookup, known, 1, <<>>)

\* Lines 167-200: ok = FALSE stands for the ValueError, which lists the
\* available names.
build_invoice_lines(lines, quantities) ==
    build_loop(template_lookup(lines), quantities, 1, <<>>)

-----------------------------------------------------------------------------
(* The handlers of main.py *)

\* A new request is taken once the previous response is out.
Arrive(r) ==
    /\ pc = "idle"
    /\ req' = r
    /\ remote' = <<>>
    /\ generator_lines' = <<>>
    /\ invoice_lines' = <<>>
    /\ payload' = NoPayload
    /\ issue_date' = NONE
    /\ UNCHANGED <<now, tokenVars, today, env, service>>

\* The handler answers without calling the service.
Answer(s, b) ==
    /\ pc' = "done"
    /\ status' = s
    /\ body' = b
    /\ call' = [call EXCEPT ![Handler] = NoCall]

\* The handler goes on to a remote operation: _get_headers calls _get_access_token.
GetHeaders(p) ==
    /\ pc' = p
    /\ call' = [call EXCEPT ![Handler] = [NoCall EXCEPT !.pc = "check"]]

CallService(p) ==
    /\ GetHeaders(p)
    /\ status' = 0
    /\ body' = NoBody

\* main.py:57-62
Unauthorized == Answer(401, Body("unauthorized", {}, ABSENT))

\* Faulty variant: an error status of the remote service passes for success.
ResponseOkBelow500(op, st) == st < 500

\* The status tests of fakturoid_service.py:101, 139 and 160.
response_ok(op, st) == IF op = "invoice" THEN st \in {200, 201} ELSE st = 200

\* main.py:128-151
get_skill_documentation(c, found) ==
    /\ Arrive(Request("docs", c, NONE, <<>>, NoFile))
    /\ IF ~verify_credentials(c) THEN Unauthorized
       ELSE IF found THEN Answer(200, Body("skill", {}, ABSENT))
       ELSE Answer(404, Body("skill_not_found", {}, ABSENT))
    /\ UNCHANGED templates

\* main.py:154-161: no credentials dependency
health_check(c) ==
    /\ Arrive(Request("health", c, NONE, <<>>, NoFile))
    /\ Answer(200, Body("health", {}, Cardinality(templates)))
    /\ UNCHANGED templates

\* main.py:164-184
list_templates(c) ==
    /\ Arrive(Request("list_templates", c, NONE, <<>>, NoFile))
    /\ IF ~verify_credentials(c) THEN Unauthorized
       ELSE Answer(200, Body("templates", templates, Cardinality(templates)))
    /\ UNCHANGED templates

\* main.py:377-389, config.py:110-113; f is the file on disk at that moment
reload_templates(c, f) ==
    /\ Arrive(Request("reload_templates", c, NONE, <<>>, f))
    /\ IF ~verify_credentials(c)
       THEN Unauthorized /\ UNCHANGED templates
       ELSE /\ templates' = reload_templates_store(templates, f)
            /\ Answer(200, Body("reloaded", {}, Cardinality(templates')))

\* main.py:193-209
get_template_details(c, tn) ==
    /\ Arrive(Request("template_details", c, tn, <<>>, NoFile))
    /\ IF ~verify_credentials(c) THEN Unauthorized
       ELSE IF get_template(tn) = NONE
            THEN Answer(404, Body("template_not_found", templates, ABSENT))
            ELSE CallService("details_generator")
    /\ UNCHANGED templates

\* main.py:211-226 with get_generator (fakturoid_service.py:90-107): any
\* exception leaves available_lines = None and the answer is still 200.
get_template_details_generator ==
    /\ pc = "details_generator"
    /\ call[Handler].pc = "returned"
    /\ \E r \in GeneratorResponses :
         /\ remote' = Append(remote, [op |-> "generator", status |-> r.status])
         /\ IF response_ok("generator", r.status)
            THEN /\ generator_lines' = r.lines
                 /\ body' = Body("template", { r.lines[i].name : i \in 1..Len(r.lines) },
                                 Len(r.lines))
            ELSE /\ generator_lines' = <<>>
                 /\ body' = Body("template", {}, ABSENT)
    /\ status' = 200
    /\ pc' = "done"
    /\ UNCHANGED <<now, tokenVars, call, templates, req, invoice_lines, payload,
                   today, env, service, issue_date>>

\* Faulty variant: the empty line map is not rejected.
ValidateTemplateOnly(tn, ln) == IF get_template(tn) = NONE THEN 404 ELSE 0

\* main.py:257-270: 0 when the request passes the local checks
validate_invoice_request(tn, ln) ==
    IF get_template(tn) = NONE THEN 404
    ELSE IF ln = <<>> THEN 400
    ELSE 0

\* main.py:239-270
create_invoice(c, tn, ln) ==
    /\ Arrive(Request("create_invoice", c, tn, ln, NoFile))
    /\ IF ~verify_credentials(c) THEN Unauthorized
       ELSE IF validate_invoice_request(tn, ln) = 404
            THEN Answer(404, Body("template_not_found", templates, ABSENT))
       ELSE IF validate_invoice_request(tn, ln) = 400
            THEN Answer(400, Body("no_lines", {}, ABSENT))
       ELSE CallService("invoice_generator")
    /\ UNCHANGED templates

\* main.py:272-290 with get_generator and build_invoice_lines, up to the call
\* of FakturoidService.create_invoice
create_invoice_generator ==
    /\ pc = "invoice_generator"
    /\ call[Handler].pc = "returned"
    /\ \E r \in GeneratorResponses :
         LET built == build_invoice_lines(r.lines, req.lines) IN
         /\ remote' = Append(remote, [op |-> "generator", status |-> r.status])
         /\ IF ~response_ok("generator", r.status)
            THEN /\ status' = 500 /\ body' = Body("error", {}, ABSENT) /\ pc' = "done"
                 /\ UNCHANGED <<generator_lines, invoice_lines, issue_date, call>>
            ELSE IF r.lines = <<>>
            THEN /\ status' = 400 /\ body' = Body("generator_empty", {}, ABSENT)
                 /\ pc' = "done"
                 /\ generator_lines' = r.lines
                 /\ UNCHANGED <<invoice_lines, issue_date, call>>
            ELSE IF ~built.ok
            THEN /\ status' = 400 /\ body' = Body("line_not_found", built.available, ABSENT)
                 /\ pc' = "done"
                 /\ generator_lines' = r.lines
                 /\ UNCHANGED <<invoice_lines, issue_date, call>>
            ELSE /\ generator_lines' = r.lines
                 /\ invoice_lines' = built.lines
                 /\ issue_date' = get_last_day_of_previous_month(today)
                 /\ GetHeaders("invoice_post")
                 /\ UNCHANGED <<status, body>>
    /\ UNCHANGED <<now, tokenVars, templates, req, payload, today, env, service>>

\* Faulty variant: a refused POST is sent again.
AfterPostRetry(st) == IF st \in {200, 201} THEN "done" ELSE "invoice_post"

\* fakturoid_service.py:139-145 and main.py:328-333: whatever the status, the
\* handler is finished after the one POST.
after_post(st) == "done"

\* main.py:291-321 with FakturoidService.create_invoice (fakturoid_service.py:109-145)
create_invoice_post ==
    /\ pc = "invoice_post"
    /\ call[Handler].pc = "returned"
    /\ payload' = [sent |-> TRUE, template |-> req.template_name,
                   issued_on |-> issue_date, lines |-> invoice_lines]
    /\ \E st \in InvoiceStatuses :
         /\ remote' = Append(remote, [op |-> "invoice", status |-> st])
         /\ IF response_ok("invoice", st)
            THEN status' = 200 /\ body' = Body("invoice", {}, ABSENT)
            ELSE status' = 500 /\ body' = Body("error", {}, ABSENT)
         /\ pc' = after_post(st)
    /\ UNCHANGED <<now, tokenVars, call, templates, req, generator_lines,
                   invoice_lines, today, env, service, issue_date>>

\* main.py:344-374
download_invoice_pdf(c) ==
    /\ Arrive(Request("download_pdf", c, NONE, <<>>, NoFile))
    /\ IF ~verify_credentials(c) THEN Unauthorized
       ELSE CallService("pdf_get")
    /\ UNCHANGED templates

\* main.py:358-374 with FakturoidService.download_invoice_pdf
\* (fakturoid_service.py:147-165)
download_invoice_pdf_get ==
    /\ pc = "pdf_get"
    /\ call[Handler].pc = "returned"
    /\ \E st \in PdfStatuses :
         /\ remote' = Append(remote, [op |-> "pdf", status |-> st])
         /\ IF response_ok("pdf", st)
            THEN status' = 200 /\ body' = Body("pdf", {}, ABSENT)
            ELSE status' = 500 /\ body' = Body("error", {}, ABSENT)
    /\ pc' = "done"
    /\ UNCHANGED <<now, tokenVars, call, templates, req, generator_lines,
                   invoice_lines, payload, today, env, service, issue_date>>

\* The exception of _get_access_token reaches the handler: main.py:215-217
\* swallows it (200 without line names), main.py:328-333 and 369-374 answer 500.
oauth_failure_status(p) == IF p = "details_generator" THEN 200 ELSE 500

handler_oauth_failed ==
    /\ pc \in {"details_generator", "invoice_generator", "invoice_post", "pdf_get"}
    /\ call[Handler].pc = "failed"
    /\ status' = oauth_failure_status(pc)
    /\ body' = IF pc = "details_generator" THEN Body("template", {}, ABSENT)
               ELSE Body("error", {}, ABSENT)
    /\ pc' = "done"
    /\ UNCHANGED <<now, tokenVars, call, templates, req, remote, generator_lines,
                   invoice_lines, payload, today, env, service, issue_date>>

\* The response is sent and the handler's frame is dropped; the event loop is
\* free for the next request.
Respond ==
    /\ pc = "done"
    /\ pc' = "idle"
    /\ req' = NoRequest
    /\ status' = 0
    /\ body' = NoBody
    /\ remote' = <<>>
    /\ generator_lines' = <<>>
    /\ invoice_lines' = <<>>
    /\ payload' = NoPayload
    /\ issue_date' = NONE
    /\ call' = [call EXCEPT ![Handler] = NoCall]
    /\ UNCHANGED <<now, tokenVars, templates, today, env, service>>

-----------------------------------------------------------------------------
(* Startup: AppConfig._load_env and lifespan *)

EnvNames == {"FAKTUROID_CLIENT_ID", "FAKTUROID_CLIENT_SECRET",
             "FAKTUROID_ACCOUNT_SLUG", "API_USERNAME", "API_PASSWORD"}

\* os.getenv gives None for an absent variable, "" for an empty one.
EnvValues == {"absent", "empty", "set"}

\* Python truthiness of os.getenv's result
Truthy(v) == v = "set"

\* Faulty variant: the API username and password are not looked at.
ConfigCompleteFakturoidOnly(e) ==
    /\ Truthy(e["FAKTUROID_CLIENT_ID"]) /\ Truthy(e["FAKTUROID_CLIENT_SECRET"])
    /\ Truthy(e["FAKTUROID_ACCOUNT_SLUG"])

\* main.py:77-87: none of the three checks raises.
config_complete(e) ==
    /\ ~(~Truthy(e["FAKTUROID_CLIENT_ID"]) \/ ~Truthy(e["FAKTUROID_CLIENT_SECRET"]))
    /\ ~(~Truthy(e["FAKTUROID_ACCOUNT_SLUG"]))
    /\ ~(~Truthy(e["API_USERNAME"]) \/ ~Truthy(e["API_PASSWORD"]))

\* main.py:67-101: a RuntimeError before the yield fails application startup
\* and the server exits without accepting a request; otherwise the service
\* object is built and requests are taken.
lifespan ==
    /\ pc = "startup"
    /\ IF config_complete(env)
       THEN service' = TRUE /\ pc' = "idle"
       ELSE service' = FALSE /\ pc' = "startup_failed"
    /\ UNCHANGED <<now, tokenVars, call, templates, req, status, body, remote,
                   generator_lines, invoice_lines, payload, today, issue_date, env>>

-----------------------------------------------------------------------------
(* Specifications *)

InitCommon ==
    /\ now = 0
    /\ access_token = NONE
    /\ token_expires_at = NoTime
    /\ call = [t \in Callers |-> NoCall]
    /\ req = NoRequest
    /\ status = 0
    /\ body = NoBody
    /\ remote = <<>>
    /\ generator_lines = <<>>
    /\ invoice_lines = <<>>
    /\ payload = NoPayload
    /\ issue_date = NONE

\* The service object exists and every credential is configured.
Started ==
    /\ pc = "idle"
    /\ env = [v \in EnvNames |-> "set"]
    /\ service = TRUE

\* The process has been launched: AppConfig() has read the environment and
\* loaded whatever templates file it found; lifespan has not run yet.
Init ==
    /\ InitCommon
    /\ pc = "startup"
    /\ env \in [EnvNames -> EnvValues]
    /\ service = FALSE
    /\ templates \in { load_templates({}, f) : f \in TemplateFiles }
    /\ today \in ServiceDates

Next ==
    \/ lifespan
    \/ Tick
    \/ TokenCheck(Handler)
    \/ OAuthRequest(Handler)
    \/ StoreToken(Handler)
    \/ StoreExpiry(Handler)
    \/ TokenReturn(Handler)
    \/ \E c \in Credentials, found \in BOOLEAN : get_skill_documentation(c, found)
    \/ \E c \in Credentials : health_check(c)
    \/ \E c \in Credentials : list_templates(c)
    \/ \E c \in Credentials, f \in TemplateFiles : reload_templates(c, f)
    \/ \E c \in Credentials, tn \in TemplateNames \cup {"ghost"} :
         get_template_details(c, tn)
    \/ get_template_details_generator
    \/ \E c \in Credentials, tn \in TemplateNames \cup {"ghost"}, ln \in RequestLines :
         create_invoice(c, tn, ln)
    \/ create_invoice_generator
    \/ create_invoice_post
    \/ \E c \in Credentials : download_invoice_pdf(c)
    \/ download_invoice_pdf_get
    \/ handler_oauth_failed
    \/ Respond

Spec == Init /\ [][Next]_vars

\* Two callers of one service object, each running _get_access_token once.
InitConc ==
    /\ InitCommon
    /\ Started
    /\ templates = {}
    /\ today = Date(2024, 3, 15)

NextConc ==
    \/ Tick
    \/ \E t \in Callers : Enter(t)
    \/ \E t \in Callers : TokenCheck(t)
    \/ \E t \in Callers : OAuthRequest(t)
    \/ \E t \in Callers : StoreToken(t)
    \/ \E t \in Callers : StoreExpiry(t)
    \/ \E t \in Callers : TokenReturn(t)

SpecConc == InitConc /\ [][NextConc]_vars

\* main.py:290 on every call date.
IssueDate ==
    /\ issue_date = NONE
    /\ issue_date' = get_last_day_of_previous_month(today)
    /\ UNCHANGED <<now, tokenVars, call, templates, pc, req, status, body, remote,
                   generator_lines, invoice_lines, payload, today, env, service>>

InitDate ==
    /\ InitCommon
    /\ Started
    /\ templates = {}
    /\ today \in CallDates

NextDate == IssueDate

SpecDate == InitDate /\ [][NextDate]_vars

-----------------------------------------------------------------------------
(* Properties of the token cache *)

\* The call of caller t found a token cached and more than 300 s from expiry.
InWindowAtEntry(t) ==
    /\ call[t].entry_token \notin {NONE, ""}
    /\ call[t].entry_expires # NoTime
    /\ call[t].entry_now < call[t].entry_expires - 300

PastCheck(t) == call[t].pc \notin {"none", "check"}

\* C1: a call of _get_access_token made while a token is cached and
\* now < expiry - 300 s returns the cached token, issues no OAuth request and
\* leaves the cache as it was, whatever calls came before.
C1_TokenReuse ==
    \A t \in Callers :
        (PastCheck(t) /\ InWindowAtEntry(t)) =>
            /\ call[t].pc = "returned"
            /\ call[t].oauth = 0
            /\ call[t].ret = call[t].entry_token
            /\ access_token = call[t].entry_token
            /\ token_expires_at = call[t].entry_expires

\* A second call of one request, made 3300 s after the token was stored, is
\* answered from the cache.
C1_Witness ==
    /\ pc = "invoice_post"
    /\ call[Handler].pc = "returned"
    /\ InWindowAtEntry(Handler)
    /\ call[Handler].entry_now > 0
    /\ call[Handler].ret = "tokA"
    /\ Len(remote) = 1

\* C2: a call made with no token cached, or at or after expiry - 300 s, issues
\* exactly one OAuth request; when that succeeds the cache holds the returned
\* token with expiry = (time of the store) + expires_in, 7200 when expires_in
\* is absent, and the call returns the new token.
C2_TokenRefresh ==
    \A t \in Callers :
        (PastCheck(t) /\ ~InWindowAtEntry(t)) =>
            /\ call[t].oauth = (IF call[t].pc = "oauth" THEN 0 ELSE 1)
            /\ call[t].pc = "failed" => call[t].resp.status # 200
            /\ call[t].pc = "returned" =>
                 LET e == IF call[t].resp.expires_in = ABSENT THEN 7200
                          ELSE call[t].resp.expires_in
                 IN /\ call[t].resp.status = 200
                    /\ access_token = call[t].resp.access_token
                    /\ call[t].ret = call[t].resp.access_token
                    /\ token_expires_at - e >= call[t].entry_now
                    /\ token_expires_at - e <= now

\* A token that reached expiry - 300 s is replaced by a new one whose response
\* carries no expires_in.
C2_Witness ==
    /\ call[Handler].pc = "returned"
    /\ ~InWindowAtEntry(Handler)
    /\ call[Handler].entry_token = "tokB"
    /\ call[Handler].entry_now = call[Handler].entry_expires - 300
    /\ call[Handler].resp.access_token = "tokA"
    /\ call[Handler].resp.expires_in = ABSENT
    /\ token_expires_at = call[Handler].entry_now + 7200

-----------------------------------------------------------------------------
(* Properties of line reconciliation *)

\* The request being served is an invoice creation whose generator fetch
\* returned 200.
GeneratorFetched ==
    /\ req.endpoint = "create_invoice"
    /\ \E i \in 1..Len(remote) : remote[i] = [op |-> "generator", status |-> 200]

GeneratorNames == { generator_lines[j].name : j \in 1..Len(generator_lines) }
RequestedNames == { req.lines[i].name : i \in 1..Len(req.lines) }

InvoicePosted == \E i \in 1..Len(remote) : remote[i].op = "invoice"

\* C3: when some requested name is not a line name of the fetched generator,
\* wherever it stands in the request, no line list is produced, the error
\* carries the valid names, no invoice POST is issued and the request ends
\* with status 400.
C3_AllOrNothing ==
    (GeneratorFetched /\ ~(RequestedNames \subseteq GeneratorNames)) =>
        /\ invoice_lines = <<>>
        /\ ~InvoicePosted
        /\ ~payload.sent
        /\ pc = "done"
        /\ status = 400
        /\ generator_lines # <<>> =>
             body.kind = "line_not_found" /\ body.names = GeneratorNames

\* The unknown name X comes after a name the generator has.
C3_Witness ==
    /\ GeneratorFetched
    /\ Len(req.lines) = 2
    /\ req.lines[1].name = "A"
    /\ req.lines[2].name = "X"
    /\ GeneratorNames = {"A", "B"}
    /\ status = 400
    /\ body.names = {"A", "B"}

\* C4: when every requested name is a line name of the fetched generator, the
\* built list has one line per requested name, in request order, with the
\* requested quantity and the unit_name, unit_price and vat_rate of a line of
\* that name in the snapshot this request fetched; the POST carries that list.
C4_LinesFromSnapshot ==
    (GeneratorFetched /\ RequestedNames \subseteq GeneratorNames) =>
        /\ Len(invoice_lines) = Len(req.lines)
        /\ \A i \in 1..Len(req.lines) :
            /\ invoice_lines[i].name = req.lines[i].name
            /\ invoice_lines[i].quantity = req.lines[i].quantity
            /\ \E j \in 1..Len(generator_lines) :
                /\ generator_lines[j].name = req.lines[i].name
                /\ invoice_lines[i].unit_name = generator_lines[j].unit_name
                /\ invoice_lines[i].unit_price = generator_lines[j].unit_price.value
                /\ invoice_lines[i].vat_rate = generator_lines[j].vat_rate
        /\ payload.sent => payload.lines = invoice_lines

\* Generator line A {unit_price 10, unit_name h, vat_rate 21} and request
\* {A: 3} give the line {A, 3, h, 10, 21}, which is posted.
C4_Witness ==
    /\ GeneratorFetched
    /\ req.lines = <<[name |-> "A", quantity |-> 3]>>
    /\ generator_lines = <<[name |-> "A", unit_name |-> "h",
                            unit_price |-> JsonNumber(10), vat_rate |-> 21]>>
    /\ payload.sent
    /\ payload.lines = <<[name |-> "A", quantity |-> 3, unit_name |-> "h",
                          unit_price |-> 10, vat_rate |-> 21]>>

-----------------------------------------------------------------------------
(* Properties of the issue date *)

\* The Gregorian calendar, stated without the ordinal arithmetic.
LeapYear(y) == (y % 400 = 0) \/ (y % 4 = 0 /\ y % 100 # 0)
LastDayOfMonth(y, m) ==
    IF m \in {4, 6, 9, 11} THEN 30
    ELSE IF m = 2 THEN (IF LeapYear(y) THEN 29 ELSE 28)
    ELSE 31

LastDayOfPreviousMonth(dt) ==
    IF dt.month = 1 THEN Date(dt.year - 1, 12, 31)
    ELSE Date(dt.year, dt.month - 1, LastDayOfMonth(dt.year, dt.month - 1))

\* C5: for every call date the issue date is the last calendar day of the
\* month before the call date, written YYYY-MM-DD.
C5_IssueDate ==
    issue_date # NONE => issue_date = strftime(LastDayOfPreviousMonth(today))

\* A call on the last day of March of a leap year gives 29 February.
C5_Witness ==
    /\ today = Date(2024, 3, 31)
    /\ issue_date = "2024-02-29"

-----------------------------------------------------------------------------
(* Properties of error handling *)

Success(st) == st \in 200..299

\* Positions of the outbound calls that got a non-success response.
FailedCalls == { i \in 1..Len(remote) : ~Success(remote[i].status) }
FailedOAuth == { i \in FailedCalls : remote[i].op = "oauth" }

\* C6: in an invoice-creation or PDF request, an OAuth request that returns a
\* non-success status is the last outbound call of the request: the token call
\* fails after that one request, the operation that needed the token is not
\* issued, and the request ends with an error status.
C6_OAuthFailure ==
    (req.endpoint \in {"create_invoice", "download_pdf"} /\ FailedOAuth # {}) =>
        /\ FailedOAuth = {Len(remote)}
        /\ call[Handler].pc = "failed"
        /\ call[Handler].oauth = 1
        /\ ~payload.sent
        /\ pc \in {"invoice_generator", "invoice_post", "pdf_get", "done"}
        /\ pc = "done" => status >= 400

\* The token call before the invoice POST fails, after the generator was
\* fetched with a token that has since reached its refresh window.
C6_Witness ==
    /\ pc = "done"
    /\ req.endpoint = "create_invoice"
    /\ remote = <<[op |-> "oauth", status |-> 200],
                  [op |-> "generator", status |-> 200],
                  [op |-> "oauth", status |-> 401]>>
    /\ invoice_lines # <<>>
    /\ status = 500

RemoteEndpoints == {"template_details", "create_invoice", "download_pdf"}

\* C7 as claimed: in every endpoint that calls the remote service, a
\* non-success remote response gives an error status and is not retried.
C7_Original ==
    (req.endpoint \in RemoteEndpoints /\ FailedCalls # {}) =>
        /\ FailedCalls = {Len(remote)}
        /\ pc = "done" => status >= 400

\* C7 amended: in invoice creation and PDF retrieval a non-success remote
\* response is the last outbound call of the request and the request ends with
\* an error status; template detail answers 200 without line names; no
\* endpoint retries a failed call.
C7_Amended ==
    (req.endpoint \in RemoteEndpoints /\ FailedCalls # {}) =>
        /\ FailedCalls = {Len(remote)}
        /\ pc = "done" =>
             IF req.endpoint = "template_details"
             THEN status = 200 /\ body = Body("template", {}, ABSENT)
             ELSE status >= 400

\* The invoice POST is refused by the remote service and the request ends 500.
C7_Witness ==
    /\ pc = "done"
    /\ req.endpoint = "create_invoice"
    /\ Len(remote) = 3
    /\ remote[3] = [op |-> "invoice", status |-> 422]
    /\ status = 500

\* The request carries the configured username and password.
Authenticated(r) ==
    /\ r.credentials.present
    /\ r.credentials.username = API_USERNAME
    /\ r.credentials.password = API_PASSWORD

\* The request fails the local checks of invoice creation.
LocallyInvalid(r) ==
    /\ r.endpoint = "create_invoice"
    /\ Authenticated(r)
    /\ r.template_name \notin templates \/ r.lines = <<>>

\* C8, the response: an invoice request with an unknown template ends 404, one
\* with a known template and no lines ends 400, with no outbound call.
C8_Response ==
    LocallyInvalid(req) =>
        /\ pc = "done"
        /\ status = (IF req.template_name \notin templates THEN 404 ELSE 400)
        /\ remote = <<>>
        /\ ~payload.sent
        /\ call[Handler].pc = "none"

\* C8, the step: taking such a request leaves the cached token as it was.
C8_Step ==
    (pc = "idle" /\ pc' # "idle" /\ LocallyInvalid(req')) =>
        /\ access_token' = access_token
        /\ token_expires_at' = token_expires_at

\* C8: local validation precedes every remote call in invoice creation.
C8_LocalValidation == [](C8_Response) /\ [][C8_Step]_vars

\* An empty line map for a known template is refused while a token is cached.
C8_Witness ==
    /\ pc = "done"
    /\ req.endpoint = "create_invoice"
    /\ Authenticated(req)
    /\ req.template_name = "acme"
    /\ req.lines = <<>>
    /\ status = 400
    /\ access_token = "tokA"

-----------------------------------------------------------------------------
(* Property of concurrent token calls *)

BothMissed == \A t \in Callers : call[t].pc = "returned" /\ ~call[t].hit

-----------------------------------------------------------------------------
(* Properties of the credentials check *)

\* A request is taken with credentials that differ from the configured ones.
RejectedStep(endpoints) ==
    (pc = "idle" /\ pc' # "idle" /\ req'.endpoint \in endpoints /\ ~Authenticated(req')) =>
        /\ pc' = "done"
        /\ status' = 401
        /\ body' = Body("unauthorized", {}, ABSENT)
        /\ remote' = <<>>
        /\ call'[Handler].pc = "none"
        /\ templates' = templates

\* C10 as claimed: on every endpoint a request with a wrong username or
\* password is answered 401, with no remote call, no template reload and no
\* template-store data in the response.
C10_Original == [][RejectedStep(Endpoints)]_vars

\* C10 amended: the same on every endpoint but the health check, which
\* answers 200 with the number of loaded templates whatever the credentials.
C10_Amended ==
    [][ /\ RejectedStep(Endpoints \ {"health"})
        /\ (pc = "idle" /\ req'.endpoint = "health") =>
             /\ status' = 200
             /\ body' = Body("health", {}, Cardinality(templates))
             /\ remote' = <<>>
             /\ templates' = templates ]_vars

\* A reload request with a wrong password is refused.
C10_Witness ==
    /\ pc = "done"
    /\ req.endpoint = "reload_templates"
    /\ req.credentials.present
    /\ req.credentials.username = API_USERNAME
    /\ req.credentials.password # API_PASSWORD
    /\ req.templates_file.names # templates
    /\ status = 401

-----------------------------------------------------------------------------
(* Property of startup *)

\* C11: when any of the five credentials is absent from the environment,
\* startup fails: the service object is never created and no inbound request
\* is ever taken or answered.
C11_MissingCredentialsFatal ==
    (\E v \in EnvNames : env[v] = "absent") =>
        /\ service = FALSE
        /\ pc \in {"startup", "startup_failed"}
        /\ req = NoRequest
        /\ status = 0
        /\ remote = <<>>
        /\ access_token = NONE

\* Startup has failed with only the API password missing.
C11_Witness ==
    /\ pc = "startup_failed"
    /\ env["API_PASSWORD"] = "absent"
    /\ \A v \in EnvNames \ {"API_PASSWORD"} : env[v] = "set"
    /\ service = FALSE

-----------------------------------------------------------------------------
(* Property of the order of remote operations *)

\* The remote operations of the request, the OAuth token requests left out.
Operations == SelectSeq(remote, LAMBDA c : c.op # "oauth")

\* C12: in an invoice-creation request the remote operations are at most one
\* generator fetch followed by at most one invoice POST; the POST is issued
\* only after the generator fetch returned 200 with a non-empty line list and
\* reconciliation succeeded, nothing follows a failed operation, and no PDF
\* download is issued.
C12_LinearOrder ==
    req.endpoint = "create_invoice" =>
        /\ Len(Operations) <= 2
        /\ Len(Operations) >= 1 => Operations[1].op = "generator"
        /\ Len(Operations) = 2 =>
            /\ Operations[2].op = "invoice"
            /\ Operations[1].status = 200
            /\ generator_lines # <<>>
            /\ RequestedNames \subseteq GeneratorNames
            /\ invoice_lines # <<>>
            /\ payload.sent
        /\ payload.sent => Len(Operations) = 2
        /\ \A i \in 1..Len(remote) : remote[i].op # "pdf"

\* A request whose token went stale between the two operations: OAuth,
\* generator fetch, OAuth again, POST.
C12_Witness ==
    /\ pc = "done"
    /\ req.endpoint = "create_invoice"
    /\ remote = <<[op |-> "oauth", status |-> 200],
                  [op |-> "generator", status |-> 200],
                  [op |-> "oauth", status |-> 200],
                  [op |-> "invoice", status |-> 201]>>
    /\ status = 200

-----------------------------------------------------------------------------
(* Property of a failed token call *)

\* The cache holds a token that is more than 300 s from expiry at time t.
InWindow(token, expires, t) ==
    token \notin {NONE, ""} /\ expires # NoTime /\ t < expires - 300

Storing == \E t \in Callers : call[t].pc \in {"store_token", "store_expiry"}

\* C13, the failed call: token and expiry are what they were on entry, the
\* caller gets no token, and the cache is still outside the window.
C13_FailedCall ==
    \A t \in Callers :
        call[t].pc = "failed" =>
            /\ access_token = call[t].entry_token
            /\ token_expires_at = call[t].entry_expires
            /\ call[t].ret = NONE
            /\ ~InWindow(access_token, token_expires_at, now)

\* C13, the caller: a call that found the cache outside the window returns
\* only the token of its own successful OAuth response.
C13_Returned ==
    \A t \in Callers :
        (call[t].pc = "returned" /\ ~InWindowAtEntry(t)) =>
            /\ call[t].resp.status = 200
            /\ call[t].oauth = 1
            /\ call[t].ret = call[t].resp.access_token

\* C13, the next call: a cache outside the window stays outside it until a
\* successful OAuth response is stored, so the next call misses as well.
C13_StaysStale ==
    (~InWindow(access_token, token_expires_at, now) /\ ~Storing) =>
        ~InWindow(access_token', token_expires_at', now')

\* C13: a failed OAuth request leaves the token cache unchanged.
C13_FailureKeepsCache ==
    [](C13_FailedCall /\ C13_Returned) /\ [][C13_StaysStale]_vars

\* The refresh of a token that reached its window is refused: the stale token
\* and its expiry are still cached and the caller has no token.
C13_Witness ==
    /\ call[Handler].pc = "failed"
    /\ call[Handler].entry_token = "tokB"
    /\ call[Handler].entry_now >= call[Handler].entry_expires - 300
    /\ access_token = "tokB"
    /\ token_expires_at = call[Handler].entry_expires
    /\ call[Handler].ret = NONE

-----------------------------------------------------------------------------
(* Property of the template reload *)

ReloadStep ==
    pc = "idle" /\ req'.endpoint = "reload_templates" /\ status' = 200

\* C14, the reload: the store afterwards holds only names of the file found,
\* none at all when no file is found or the file cannot be parsed, and a name
\* that was dropped is looked up as not found.
C14_Reload ==
    ReloadStep =>
        /\ templates' \subseteq req'.templates_file.names
        /\ req'.templates_file.kind \in {"missing", "invalid"} => templates' = {}
        /\ \A n \in templates \ req'.templates_file.names : n \notin templates'

\* C14, afterwards: only a reload changes the store.
C14_StoreKept == templates' # templates => ReloadStep

\* C14, the lookup: an authenticated request for a name that is not in the
\* store is answered 404 without a remote call.
C14_Lookup ==
    (/\ pc = "done"
     /\ req.endpoint \in {"template_details", "create_invoice"}
     /\ Authenticated(req)
     /\ req.template_name \notin templates) =>
        status = 404 /\ remote = <<>>

\* C14: after reload_templates the store has no template that is absent from
\* the templates file found at reload time.
C14_ReloadClears ==
    []C14_Lookup /\ [][C14_Reload /\ C14_StoreKept]_vars

\* A reload that finds no usable file has answered with zero templates and
\* the store is empty.
C14_Witness ==
    /\ pc = "done"
    /\ req.endpoint = "reload_templates"
    /\ status = 200
    /\ req.templates_file.kind \in {"missing", "invalid"}
    /\ body = Body("reloaded", {}, 0)
    /\ templates = {}

====
